---- MODULE Spec2Model ----
(***************************************************************************)
(* Model of the WebSocket fan-out hub of src/main.go.                      *)
(*                                                                         *)
(* One goroutine runs handleConnections per HTTP request to /ws (the       *)
(* "worker" of a connection), one goroutine runs handleMessages (the       *)
(* "broadcaster").  They share the package-level map `clients` and the     *)
(* unbuffered channel `broadcast`.  The map is accessed without any lock,  *)
(* so an insert or delete of a worker that overlaps another access of the  *)
(* map is a data race: the Go runtime may detect it and kill the process   *)
(* ("fatal error: concurrent map writes" / "concurrent map iteration and   *)
(* map write"), or not detect it, and then either both updates land or one *)
(* of them is lost.  All these outcomes are kept as nondeterministic       *)
(* choices.                                                                *)
(***************************************************************************)
EXTENDS Naturals, Integers, Sequences, FiniteSets

\* Number of HTTP requests to /ws the model lets arrive (one worker each).
NConn == 3
\* Total number of messages the workers read from their peers.
MaxMsgs == 2

Conns == 1..NConn
NoConn == 0
NoMsg == <<0, 0>>

VARIABLES
    proc,      \* "running" | "exit_upgrade" (log.Fatal, line 36)
               \* | "exit_map_writes" | "exit_map_iter" (runtime throw)
    wpc,       \* position of each handleConnections goroutine
    wsOpen,    \* server side of each connection: upgraded and not yet Close()d
    clients,   \* key set of the map `clients`
    raced,     \* workers inside a map write that overlapped another map write
    sendq,     \* workers blocked in `broadcast <- msg`, in arrival order
    sent,      \* number of messages each worker has read from its peer
    bpc,       \* position of the handleMessages goroutine
    bmsg,      \* the broadcaster's local `msg`
    cur,       \* the broadcaster's loop variable `client`
    seen,      \* map entries the running range loop will not produce (any more)
    inbox,     \* what each peer has been written, in order
    dequeued,  \* the messages the broadcaster has received from the channel, in order
    roundSet   \* the registry as it was when the running round's message was dequeued

vars == <<proc, wpc, wsOpen, clients, raced, sendq, sent, bpc, bmsg, cur, seen, inbox,
          dequeued, roundSet>>

\* A message is opaque to the program; the model tags it with its sender and
\* the sender's sequence number so that copies can be told apart.
Msg(c, k) == <<c, k>>
Sender(m) == m[1]
SeqNo(m) == m[2]

\* Workers that are inside mapassign (line 42) or mapdelete (line 50).
MapWriters == {c \in Conns : wpc[c] \in {"adding", "deleting"}}

\* The message worker c holds while it is blocked at line 54.
Pending(c) == Msg(c, sent[c])

TotalSent == LET RECURSIVE Sum(_)
                 Sum(n) == IF n = 0 THEN 0 ELSE sent[n] + Sum(n - 1)
             IN Sum(NConn)

Init ==
    /\ proc = "running"
    /\ wpc = [c \in Conns |-> "init"]
    /\ wsOpen = [c \in Conns |-> FALSE]
    /\ clients = {}
    /\ raced = {}
    /\ sendq = <<>>
    /\ sent = [c \in Conns |-> 0]
    /\ bpc = "recv"
    /\ bmsg = NoMsg
    /\ cur = NoConn
    /\ seen = {}
    /\ inbox = [c \in Conns |-> <<>>]
    /\ dequeued = <<>>
    /\ roundSet = {}

Running == proc = "running"

\* A map write of worker c begins: every write already in progress now
\* overlaps it, and so does c's.
BeginMapWrite(c) == IF MapWriters = {} THEN raced ELSE raced \cup MapWriters \cup {c}

\* A map write after which the writer's own key is present whatever the
\* write was: a removal that leaves, or puts back, the entry it removes.
EndMapWriteKeepingKey(c, done) ==
    {done, clients \cup {c}}

\* The outcomes of a map write of worker c that ends, `done` being the map
\* with the write applied: the write lands, or (only if it raced) it is lost.
EndMapWrite(c, done) == IF c \in raced THEN {done, clients} ELSE {done}

\* The broadcaster deletes from the map (line 69): every worker write in
\* progress overlaps it.
BroadcasterMapWrite == raced \cup MapWriters

\* A write path that hands frames to the peer newest first.
DeliverNewestFirst(box, m) == <<m>> \o box

\* Line 65: the frame written to a peer is appended to what it has received.
Deliver(box, m) == Append(box, m)

\* A channel that hands over the value of the sender that blocked last.
NextSenderNewest(q) ==
    q[Len(q)]

\* Line 62: the channel wakes its blocked senders in arrival order.
NextSender(q) == Head(q)

\* A loop that also writes to the sender of the message, registered or not.
RangeCandidatesAndSender == (clients \cup ({Sender(bmsg)} \cap Conns)) \ seen

\* Line 64: the entries the range loop can still produce.
RangeCandidates == clients \ seen

\* A send that gives up instead of blocking (select with a default case): the
\* worker is back at its read with the message handed to nobody.
AfterReadGivingUp == "read"

\* Line 54 blocks: the worker stays at the send until the broadcaster receives.
AfterRead == "send"

(***************************************************************************)
(* handleConnections                                                       *)
(***************************************************************************)

\* Lines 34-42, upgrade succeeded: the connection is open, the deferred Close
\* is registered, and the worker enters the map insert of line 42.
Upgrade(c) ==
    /\ Running
    /\ wpc[c] = "init"
    /\ wpc' = [wpc EXCEPT ![c] = "adding"]
    /\ wsOpen' = [wsOpen EXCEPT ![c] = TRUE]
    /\ raced' = BeginMapWrite(c)
    /\ UNCHANGED <<proc, clients, sendq, sent, bpc, bmsg, cur, seen, inbox, dequeued, roundSet>>

\* Lines 34-37, upgrade failed: log.Fatal prints and calls os.Exit(1).
UpgradeFail(c) ==
    /\ Running
    /\ wpc[c] = "init"
    /\ wpc' = [wpc EXCEPT ![c] = "rejected"]
    /\ proc' = "exit_upgrade"
    /\ UNCHANGED <<wsOpen, clients, raced, sendq, sent, bpc, bmsg, cur, seen, inbox, dequeued, roundSet>>

\* Line 42 completes.  An entry created while a range loop is running may be
\* produced by it or skipped.
AddEnd(c) ==
    /\ Running
    /\ wpc[c] = "adding"
    /\ wpc' = [wpc EXCEPT ![c] = "read"]
    /\ clients' \in EndMapWrite(c, clients \cup {c})
    /\ raced' = raced \ {c}
    /\ seen' \in (IF bpc = "recv" THEN {seen} ELSE {seen, seen \cup {c}})
    /\ UNCHANGED <<proc, wsOpen, sendq, sent, bpc, bmsg, cur, inbox, dequeued, roundSet>>

\* Line 47 returns a message; the worker goes to line 54 and joins the
\* channel's queue of blocked senders.
ReadOk(c) ==
    /\ Running
    /\ wpc[c] = "read"
    /\ wsOpen[c]
    /\ TotalSent < MaxMsgs
    /\ sent' = [sent EXCEPT ![c] = @ + 1]
    /\ wpc' = [wpc EXCEPT ![c] = AfterRead]
    /\ sendq' = Append(sendq, c)
    /\ UNCHANGED <<proc, wsOpen, clients, raced, bpc, bmsg, cur, seen, inbox, dequeued, roundSet>>

\* Line 47 returns an error (peer gone, or the connection was closed at line
\* 68); lines 48-50: log, and enter the map delete.
ReadFail(c) ==
    /\ Running
    /\ wpc[c] = "read"
    /\ wpc' = [wpc EXCEPT ![c] = "deleting"]
    /\ raced' = BeginMapWrite(c)
    /\ UNCHANGED <<proc, wsOpen, clients, sendq, sent, bpc, bmsg, cur, seen, inbox, dequeued, roundSet>>

\* Line 50 completes, line 51 breaks, the handler returns and the deferred
\* ws.Close() of line 38 runs.
DelEnd(c) ==
    /\ Running
    /\ wpc[c] = "deleting"
    /\ wpc' = [wpc EXCEPT ![c] = "closed"]
    /\ clients' \in EndMapWrite(c, clients \ {c})
    /\ raced' = raced \ {c}
    /\ wsOpen' = [wsOpen EXCEPT ![c] = FALSE]
    /\ UNCHANGED <<proc, sendq, sent, bpc, bmsg, cur, seen, inbox, dequeued, roundSet>>

(***************************************************************************)
(* handleMessages                                                          *)
(***************************************************************************)

\* Lines 54 and 62 meet: the broadcaster, waiting at line 62, receives the
\* message of the first blocked sender c, which goes back to line 47.
Handoff(c) ==
    /\ Running
    /\ bpc = "recv"
    /\ sendq # <<>>
    /\ c = NextSender(sendq)
    /\ wpc[c] = "send"
    /\ sendq' = Tail(sendq)
    /\ wpc' = [wpc EXCEPT ![c] = "read"]
    /\ bmsg' = Pending(c)
    /\ dequeued' = Append(dequeued, Pending(c))
    /\ bpc' = "iter"
    /\ seen' = {}
    /\ roundSet' = clients
    /\ UNCHANGED <<proc, wsOpen, clients, raced, sent, cur, inbox>>

\* Line 64 produces the next entry d and line 65 enters WriteMessage.
RangeNext(d) ==
    /\ Running
    /\ bpc = "iter"
    /\ d \in RangeCandidates
    /\ cur' = d
    /\ seen' = seen \cup {d}
    /\ bpc' = "write"
    /\ UNCHANGED <<proc, wpc, wsOpen, clients, raced, sendq, sent, bmsg, inbox, dequeued, roundSet>>

\* Line 64 finds no further entry: back to line 62.
RangeEnd ==
    /\ Running
    /\ bpc = "iter"
    /\ RangeCandidates = {}
    /\ bpc' = "recv"
    /\ bmsg' = NoMsg
    /\ seen' = {}
    /\ roundSet' = {}
    /\ UNCHANGED <<proc, wpc, wsOpen, clients, raced, sendq, sent, cur, inbox, dequeued>>

\* Line 65 returns nil: the peer has the message.
WriteOk ==
    /\ Running
    /\ bpc = "write"
    /\ wsOpen[cur]
    /\ inbox' = [inbox EXCEPT ![cur] = Deliver(@, bmsg)]
    /\ bpc' = "iter"
    /\ cur' = NoConn
    /\ UNCHANGED <<proc, wpc, wsOpen, clients, raced, sendq, sent, bmsg, seen, dequeued, roundSet>>

\* Line 65 returns an error; lines 67-69: log, close, delete.  The delete is
\* lost if it raced a worker's map write and the runtime did not notice.
WriteFail ==
    /\ Running
    /\ bpc = "write"
    /\ wsOpen' = [wsOpen EXCEPT ![cur] = FALSE]
    /\ clients' \in (IF MapWriters = {} THEN {clients \ {cur}}
                                        ELSE {clients \ {cur}, clients})
    /\ raced' = BroadcasterMapWrite
    /\ bpc' = "iter"
    /\ cur' = NoConn
    /\ UNCHANGED <<proc, wpc, sendq, sent, bmsg, seen, inbox, dequeued, roundSet>>

\* Line 64 steps the range loop while a worker is inside a map write and the
\* runtime notices: "fatal error: concurrent map iteration and map write".
RangeFatal ==
    /\ Running
    /\ bpc = "iter"
    /\ MapWriters # {}
    /\ proc' = "exit_map_iter"
    /\ UNCHANGED <<wpc, wsOpen, clients, raced, sendq, sent, bpc, bmsg, cur, seen, inbox, dequeued, roundSet>>

\* The runtime notices overlapping map writes: "fatal error: concurrent map
\* writes".
MapWriteFatal ==
    /\ Running
    /\ raced # {}
    /\ proc' = "exit_map_writes"
    /\ UNCHANGED <<wpc, wsOpen, clients, raced, sendq, sent, bpc, bmsg, cur, seen, inbox, dequeued, roundSet>>

Worker(c) ==
    \/ Upgrade(c)
    \/ UpgradeFail(c)
    \/ AddEnd(c)
    \/ ReadOk(c)
    \/ ReadFail(c)
    \/ DelEnd(c)

Broadcaster ==
    \/ \E c \in Conns : Handoff(c)
    \/ \E d \in Conns : RangeNext(d)
    \/ RangeEnd
    \/ RangeFatal
    \/ WriteOk
    \/ WriteFail

Next ==
    \/ \E c \in Conns : Worker(c)
    \/ Broadcaster
    \/ MapWriteFatal

Spec == Init /\ [][Next]_vars

\* The Go scheduler runs the broadcaster whenever it can take a step, and
\* every WriteMessage returns (with nil or with an error).
FairSpec == Spec /\ WF_vars(Broadcaster)

\* The broadcaster's steps other than the return of a WriteMessage.
BroadcasterOutsideWrite ==
    \/ \E c \in Conns : Handoff(c)
    \/ \E d \in Conns : RangeNext(d)
    \/ RangeEnd

\* The scheduler runs the broadcaster whenever it is runnable; a WriteMessage
\* to a peer that does not drain its socket need not return.
SlowSpec == Spec /\ WF_vars(BroadcasterOutsideWrite)

(***************************************************************************)
(* Claims                                                                  *)
(***************************************************************************)

InInbox(d, m) == \E i \in 1..Len(inbox[d]) : inbox[d][i] = m

\* C1 (as claimed): once worker s holds message M at the hand-off and d is
\* another registered client, d eventually has M, unless d leaves the
\* registry or a write to d fails (which closes d); under fair scheduling of
\* the broadcaster with writes that return.
C1_EventualDelivery ==
    \A s \in Conns : \A d \in Conns \ {s} : \A k \in 1..MaxMsgs :
        (wpc[s] = "send" /\ sent[s] = k /\ d \in clients)
            ~> (InInbox(d, Msg(s, k)) \/ d \notin clients \/ ~wsOpen[d])

\* C2: in what any peer has received, the messages of one sender appear in
\* the order in which that sender's worker read them.
C2_PerSourceOrder ==
    \A d \in Conns : \A i, j \in 1..Len(inbox[d]) :
        (i < j /\ Sender(inbox[d][i]) = Sender(inbox[d][j]))
            => SeqNo(inbox[d][i]) < SeqNo(inbox[d][j])

\* Some peer has received two messages of the same sender.
C2_Witness ==
    \E d \in Conns : \E i, j \in 1..Len(inbox[d]) :
        i < j /\ Sender(inbox[d][i]) = Sender(inbox[d][j])

\* C3 (as claimed): no peer is ever written a message that its own worker
\* published.
C3_NoSelfEcho ==
    \A c \in Conns : \A i \in 1..Len(inbox[c]) : Sender(inbox[c][i]) # c

\* C4 (as claimed): a failed write to cur removes cur from the registry,
\* leaves the round running on the same message with the same entries still
\* to come, moves no worker, and leaves the sender of the message registered.
C4_WriteFailureIsLocal ==
    [][WriteFail =>
          /\ cur \notin clients'
          /\ bpc' = "iter" /\ bmsg' = bmsg /\ seen' = seen
          /\ wpc' = wpc
          /\ (Sender(bmsg) \in clients => Sender(bmsg) \in clients')]_vars

\* C5 (as claimed): after a failed upgrade the process is still running and
\* every request that has not arrived yet can still be upgraded.
C5_UpgradeFailureNotFatal ==
    (\E c \in Conns : wpc[c] = "rejected")
        => (Running /\ \A c \in Conns : wpc[c] = "init" => ENABLED Upgrade(c))

\* The connections that are upgraded, not closed, and whose read has not failed.
Live == {c \in Conns : wsOpen[c] /\ wpc[c] \notin {"deleting", "closed"}}

\* C6 (as claimed): in every state the registry holds exactly the live
\* connections.
C6_RegistryExact == clients = Live

\* C7 (as claimed): while the broadcaster is inside a write to c, any other
\* entry d that the round has still to produce is eventually reached by the
\* round (or leaves the registry), whether or not the write to c returns.
C7_SlowClientNoStall ==
    \A c \in Conns : \A d \in Conns \ {c} :
        (Running /\ bpc = "write" /\ cur = c /\ d \in RangeCandidates)
            ~> (cur = d \/ d \notin clients \/ ~Running)

\* C8 (as claimed): a worker removing its entry while the broadcaster is
\* iterating the registry (no other map write being in progress) never ends
\* with the runtime killing the process.
C8_MidRoundDisconnectNoCrash ==
    ~(proc = "exit_map_iter" /\ \E c \in Conns : MapWriters = {c} /\ wpc[c] = "deleting")

\* C9 (as claimed): the worker that is first in line at the hand-off can
\* always complete it, whatever the broadcaster is doing.
C9_PublishNonBlocking ==
    (Running /\ sendq # <<>>) => ENABLED Handoff(Head(sendq))

Occurrences(q, c) == Cardinality({i \in 1..Len(q) : q[i] = c})

\* C10: the broadcaster has received no message twice, has received only
\* messages a worker brought to the hand-off, and every message brought to the
\* hand-off has been received or is still held by its worker, which is blocked
\* at the send and queued exactly once.
C10_DequeuedExactlyOnce ==
    /\ \A i, j \in 1..Len(dequeued) : i # j => dequeued[i] # dequeued[j]
    /\ \A i \in 1..Len(dequeued) :
          /\ Sender(dequeued[i]) \in Conns
          /\ SeqNo(dequeued[i]) \in 1..sent[Sender(dequeued[i])]
    /\ \A c \in Conns : \A k \in 1..sent[c] :
          \/ \E i \in 1..Len(dequeued) : dequeued[i] = Msg(c, k)
          \/ k = sent[c] /\ wpc[c] = "send" /\ Occurrences(sendq, c) = 1

\* Two workers were blocked at the hand-off together, and the broadcaster has
\* received the messages of both.
C10_Witness ==
    /\ Len(dequeued) >= 2
    /\ \E i, j \in 1..Len(dequeued) : Sender(dequeued[i]) # Sender(dequeued[j])

\* The position at which the broadcaster received message m.
DequeuePos(m) == CHOOSE i \in 1..Len(dequeued) : dequeued[i] = m

\* C11: every peer has received its messages in the order in which the
\* broadcaster dequeued them (so any two peers agree on the order of any two
\* messages both received), and while a round is running its message is the
\* last one dequeued: no later round has started.
C11_GlobalBroadcastOrder ==
    /\ \A d \in Conns : \A i \in 1..Len(inbox[d]) :
          \E p \in 1..Len(dequeued) : dequeued[p] = inbox[d][i]
    /\ \A d \in Conns : \A i, j \in 1..Len(inbox[d]) :
          i < j => DequeuePos(inbox[d][i]) < DequeuePos(inbox[d][j])
    /\ bpc # "recv" => (dequeued # <<>> /\ bmsg = dequeued[Len(dequeued)])
    /\ bpc = "recv" => bmsg = NoMsg

\* Two peers have each received the same two messages of different senders.
C11_Witness ==
    \E d, e \in Conns :
        /\ d # e
        /\ Len(inbox[d]) = 2 /\ Len(inbox[e]) = 2
        /\ Sender(inbox[d][1]) # Sender(inbox[d][2])
        /\ {inbox[e][1], inbox[e][2]} = {inbox[d][1], inbox[d][2]}

\* C12 (as claimed): a connection that disconnects before it has sent
\* anything is out of the registry once its worker has finished, its removal
\* does not end with the runtime killing the process, and after it every
\* request that has not arrived yet can still be upgraded.
C12_DisconnectBeforeSendKeepsServing ==
    \A c \in Conns : sent[c] = 0 =>
        /\ wpc[c] = "closed" => c \notin clients
        /\ ~(proc = "exit_map_writes" /\ wpc[c] = "deleting" /\ c \in raced)
        /\ ~(proc = "exit_map_iter" /\ wpc[c] = "deleting" /\ MapWriters = {c})
        /\ (wpc[c] = "closed" /\ Running)
              => \A e \in Conns : wpc[e] = "init" => ENABLED Upgrade(e)

C14_ReceiveFailureIsTerminalAndLocal ==
    [][\A c \in Conns :
          /\ ReadFail(c) => wpc'[c] = "deleting"
          /\ wpc[c] = "deleting" =>
                (wpc'[c] \in {"deleting", "closed"} /\ sent'[c] = sent[c])
          /\ wpc[c] = "closed" =>
                /\ wpc'[c] = "closed" /\ sent'[c] = sent[c]
                /\ Occurrences(sendq', c) <= Occurrences(sendq, c)
          /\ (wpc[c] = "deleting" /\ wpc'[c] = "closed") =>
                /\ c \notin clients'
                /\ ~wsOpen'[c]
                /\ clients' \ {c} = clients \ {c}
                /\ \A e \in Conns \ {c} : wpc'[e] = wpc[e] /\ wsOpen'[e] = wsOpen[e]]_vars

\* C15 (as claimed): at most one worker is inside a map write at any time, no
\* map write of a worker has overlapped another map write, and the runtime
\* has never caught an overlap of map accesses.
C15_RegistryMutualExclusion ==
    /\ Cardinality(MapWriters) <= 1
    /\ raced = {}
    /\ proc \notin {"exit_map_writes", "exit_map_iter"}

\* C16 (as claimed): while the broadcaster is inside a write to a connection,
\* that connection's worker is neither removing it from the registry nor done
\* closing it.
C16_WriteExcludesOwnRemoval ==
    bpc = "write" => wpc[cur] \notin {"deleting", "closed"}

\* C17: a round writes to exactly the connections that were in the
\* registry when its message was dequeued; a connection added after the round
\* started is never written that round's message.
C17_RoundUsesSnapshot ==
    bpc = "write" => cur \in roundSet

\* C18: when the broadcaster (after a failed write) and the connection's own
\* worker (after a failed read) both remove the same connection, in either
\* order, the second removal is a no-op without error. Here no other
\* connection exists, the worker is inside its removal of c and the
\* broadcaster has closed and removed c, so the two removals are the only
\* registry writes that can have met.
C18_RemoveTwiceIsSafe ==
    \A c \in Conns :
        (/\ wpc[c] = "deleting"
         /\ ~wsOpen[c]
         /\ \A e \in Conns \ {c} : wpc[e] = "init")
            => proc # "exit_map_writes"

ReadClosed(c) ==
    /\ ~wsOpen[c]
    /\ ReadFail(c)

\* The liveness check runs with the first OrphanNConn connections: the
\* others never send their upgrade request.
OrphanNConn == 2

OrphanConns == 1..OrphanNConn

OrphanNext ==
    \/ \E c \in OrphanConns : Worker(c)
    \/ Broadcaster
    \/ MapWriteFatal

\* The broadcaster keeps being scheduled, a receive on a closed transport
\* fails, and a worker that has seen the failure runs on to its return.
OrphanSpec ==
    /\ Init
    /\ [][OrphanNext]_vars
    /\ WF_vars(Broadcaster)
    /\ \A c \in OrphanConns : WF_vars(ReadClosed(c)) /\ WF_vars(DelEnd(c))

====
